---- MODULE Spec2Model ----
(***************************************************************************)
(* Call lifecycle of the outbound calling agent: the in-memory registry of *)
(* active calls (CallManager.activeCalls), the durable Call / CallMessage  *)
(* / Contact rows behind the storage facade, and the webhook handlers that *)
(* run concurrently on one event loop.  Every handler is an async function *)
(* and is modelled as a process whose steps are the code between two       *)
(* awaits; handlers of different webhooks interleave at those points.      *)
(***************************************************************************)
EXTENDS Integers, Sequences, FiniteSets, TLC

\* ------------------------------------------------------------------ bounds
MaxCalls == 2
MaxProcs == 2

Sids  == 1..MaxCalls
Procs == 1..MaxProcs
\* references of ActiveCall objects: the one initiateCall creates for call c
\* is c, the one a handler p creates when it tracks a call again is MaxCalls + p
Refs  == 1..(MaxCalls + MaxProcs)

VARIABLES
  activeCalls,     \* CallManager.activeCalls: set of Map entries [key, ref]
  heap,            \* the ActiveCall objects, by reference
  carrier,         \* per call id: "none" | "placed" | "tracked" | "failed"
  calls,           \* durable Call rows, by twilioCallSid
  messages,        \* durable CallMessage rows, by twilioCallSid
  contacts,        \* durable Contact rows (id = index)
  proc,            \* one record per webhook handler invocation
  now,             \* the clock (Date.now())
  applied,         \* the last application of one of the pure functions:
                   \* [fn, args, result]
  initResult,      \* per placement attempt: "" | "sid" | "error", how the
                   \* attempt came out (getCampaign, twilioService.initiateCall)
  completedWrites, \* per call: number of updateCall({status:'completed'})
  summaryCount,    \* per call: number of generateConversationSummary calls
  scoreCount,      \* per call: number of calculateSuccessScore calls
  whatsappCount,   \* per call: number of sendRealTimeWhatsAppMessage calls
  carrierEnded     \* per call: twilioService.endCall has been invoked

vars == <<activeCalls, heap, carrier, calls, messages, contacts, proc, now, initResult, applied,
          completedWrites, summaryCount, scoreCount, whatsappCount,
          carrierEnded>>

\* ------------------------------------------------------------ the registry
NoRef == 0

MapHas(m, k) == \E e \in m : e.key = k

MapGet(m, k) == IF MapHas(m, k) THEN (CHOOSE e \in m : e.key = k).ref ELSE NoRef

MapSet(m, k, r) == {e \in m : e.key # k} \cup {[key |-> k, ref |-> r]}

\* the delete empties the registry
MapDeleteAll(m, k) == {}

\* activeCalls.delete(key)
MapDelete(m, k) == {e \in m : e.key # k}

NoObj == [id |-> 0, twilioCallSid |-> 0, conversationHistory |-> <<>>, startTime |-> 0]

\* the session is stored without its carrier call id
NewActiveCallNoSid(sid, t) ==
  [id |-> sid, twilioCallSid |-> 0, conversationHistory |-> <<>>, startTime |-> t]

NewActiveCall(sid, t) ==
  [id |-> sid, twilioCallSid |-> sid, conversationHistory |-> <<>>, startTime |-> t]

\* ------------------------------------------------------- generator replies
NoED == [whatsapp_number |-> "", email |-> "", contact_complete |-> "",
         customer_interest |-> "", name |-> ""]

Replies ==
  { [shouldEndCall |-> FALSE, extractedData |-> [NoED EXCEPT !.customer_interest = "neutral"]],
    [shouldEndCall |-> FALSE, extractedData |-> [NoED EXCEPT !.whatsapp_number = "w1"]],
    [shouldEndCall |-> FALSE, extractedData |-> [NoED EXCEPT !.email = "e1"]],
    [shouldEndCall |-> FALSE, extractedData |-> [NoED EXCEPT !.whatsapp_number = "w1", !.email = "e1"]],
    [shouldEndCall |-> TRUE,  extractedData |-> [NoED EXCEPT !.name = "n1"]] }

\* the replies of a working generator in the runs where it may also fail
FaultReplies ==
  { [shouldEndCall |-> FALSE, extractedData |-> [NoED EXCEPT !.whatsapp_number = "w1", !.email = "e1"]] }

NoReply == [shouldEndCall |-> FALSE, extractedData |-> NoED]

\* what the catch of generateResponse looks for in the utterance, in the
\* order of its tests: fine|good|theek|accha, what|why|kya|kyon, ten digits
\* in a row, @|email|gmail, "not interested"|no|nahi
Keywords == {"fine", "what", "digits", "email", "not interested", "no"}

\* the utterances of a turn whose generator call fails, by the keywords found
\* in them
Utterances == { {}, {"digits"}, {"email", "no"} }

GeneratorFailures == {"quota", "error"}

\* the catch of generateResponse with an empty farewell for the errors that
\* are not quota errors
FallbackReplySilent(kind, utt) ==
  IF kind = "quota"
  THEN [message |-> "Can you share your WhatsApp number for lab details?",
        shouldEndCall |-> FALSE,
        extractedData |-> [NoED EXCEPT !.customer_interest = "neutral"]]
  ELSE [message |-> "", shouldEndCall |-> TRUE, extractedData |-> NoED]

\* the catch of generateResponse: a quota error (status 429 or code
\* insufficient_quota) is answered from the keywords of the utterance, any
\* other error with a farewell that ends the call
FallbackReply(kind, utt) ==
  IF kind = "quota"
  THEN CASE "fine" \in utt ->
              [message |-> "Great! Can you share your WhatsApp number?",
               shouldEndCall |-> FALSE,
               extractedData |-> [NoED EXCEPT !.customer_interest = "interested"]]
         [] "fine" \notin utt /\ "what" \in utt ->
              [message |-> "We want to share our lab test details with you",
               shouldEndCall |-> FALSE,
               extractedData |-> [NoED EXCEPT !.customer_interest = "neutral"]]
         [] {"fine", "what"} \cap utt = {} /\ "digits" \in utt ->
              [message |-> "Perfect! Now can you share your email ID?",
               shouldEndCall |-> FALSE,
               extractedData |-> [NoED EXCEPT !.whatsapp_number = "w1",
                                             !.customer_interest = "interested"]]
         [] {"fine", "what", "digits"} \cap utt = {} /\ "email" \in utt ->
              [message |-> "Thank you! We'll send you the details soon",
               shouldEndCall |-> TRUE,
               extractedData |-> [NoED EXCEPT !.email = "e1", !.contact_complete = "yes"]]
         [] {"fine", "what", "digits", "email"} \cap utt = {}
            /\ {"not interested", "no"} \cap utt # {} ->
              [message |-> "No problem. Have a good day!",
               shouldEndCall |-> TRUE,
               extractedData |-> [NoED EXCEPT !.customer_interest = "not_interested"]]
         [] OTHER ->
              [message |-> "Can you share your WhatsApp number for lab details?",
               shouldEndCall |-> FALSE,
               extractedData |-> [NoED EXCEPT !.customer_interest = "neutral"]]
  ELSE [message |-> "Sorry sir, thoda technical issue hai. Main dubara call karunga. Dhanyawad!",
        shouldEndCall |-> TRUE, extractedData |-> NoED]

\* the assistant message generated for the utterance of turn u
ReplyFor(u) == u

\* ------------------------------------------------------------ durable rows
NoRow == [exists |-> FALSE, status |-> "", hasCollected |-> FALSE, collectedData |-> NoED,
          whatsappSent |-> FALSE, contactId |-> 0, phoneNumber |-> 0,
          duration |-> -1, endTime |-> -1, summarized |-> FALSE,
          conversationSummary |-> <<>>, successScore |-> 0]

\* the Call row as it is when the call is placed
NewCallRow(sid, cid) ==
  [NoRow EXCEPT !.exists = TRUE, !.status = "initiated", !.contactId = cid, !.phoneNumber = sid]

NewContact(phone, name, ed) ==
  [phone |-> phone, name |-> name, email |-> ed.email, whatsappNumber |-> ed.whatsapp_number]

\* storage.updateContact(id, fields): a field that is undefined is not written
MergeField(old, new) == IF new # "" THEN new ELSE old

\* the fields are written as they come, an absent one as an empty value
UpdateContactOverwrite(ct, name, email, whatsapp) ==
  [ct EXCEPT !.name = name, !.email = email, !.whatsappNumber = whatsapp]

\* storage.updateContact as handleUserInput and endCall call it: the turn puts
\* only the fields it extracted into updateData, endCall passes
\* `field || undefined` for each
UpdateContact(ct, name, email, whatsapp) ==
  [ct EXCEPT !.name = MergeField(@, name), !.email = MergeField(@, email),
             !.whatsappNumber = MergeField(@, whatsapp)]

Scores == {50}

TerminalStatuses == {"completed", "failed", "busy", "no-answer"}
CarrierStatuses  == TerminalStatuses \cup {"answered", "ringing"}
UtteranceKinds   == {"empty", "terminate", "normal"}

\* ----------------------------------------------------------------- handlers
\* no pure function has been applied
NoApplication == [fn |-> "none", args |-> <<>>, result |-> <<>>]

IdleProc ==
  [pc |-> "idle", op |-> "none", sid |-> 0, arg |-> "",
   reply |-> NoReply, gotReply |-> FALSE, ref |-> NoRef,
   callContactId |-> 0, callWhatsappSent |-> FALSE,
   eref |-> NoRef, ecallHasCollected |-> FALSE, ecallData |-> NoED, ecallContactId |-> 0,
   summary |-> <<>>, duration |-> -1, score |-> 0, newContactId |-> 0,
   doc |-> "", endCalled |-> FALSE,
   gen |-> "ok", utt |-> {}, fallback |-> "", failed |-> FALSE,
   via |-> "direct", atStart |-> "", http |-> 0]

Init ==
  /\ activeCalls = {}
  /\ heap = [r \in Refs |-> NoObj]
  /\ carrier = [c \in Sids |-> "none"]
  /\ calls = [c \in Sids |-> NoRow]
  /\ messages = [c \in Sids |-> <<>>]
  /\ contacts = <<>>
  /\ proc = [p \in Procs |-> IdleProc]
  /\ now = 0
  /\ initResult = [c \in Sids |-> ""]
  /\ applied = NoApplication
  /\ completedWrites = [c \in Sids |-> 0]
  /\ summaryCount = [c \in Sids |-> 0]
  /\ scoreCount = [c \in Sids |-> 0]
  /\ whatsappCount = [c \in Sids |-> 0]
  /\ carrierEnded = [c \in Sids |-> FALSE]

\* only the utterance is pushed, the reply is left out
PushTurnUserOnly(obj, userInput, message) ==
  [obj EXCEPT !.conversationHistory = Append(@, [role |-> "user", content |-> userInput])]

\* conversationHistory.push({role:'user'}, {role:'assistant'})
PushTurn(obj, userInput, message) ==
  [obj EXCEPT !.conversationHistory =
     @ \o << [role |-> "user", content |-> userInput],
             [role |-> "assistant", content |-> message] >>]

\* the end-of-call test without the complete-contact condition
ShouldFinalizeNoContact(r) ==
  r.shouldEndCall \/ r.extractedData.customer_interest = "not_interested"

\* the end-of-call test of handleUserInput
ShouldFinalize(r) ==
  LET ed == r.extractedData
      hasCompleteContact == ed.contact_complete = "yes"
                            \/ (ed.whatsapp_number # "" /\ ed.email # "")
  IN r.shouldEndCall \/ hasCompleteContact \/ ed.customer_interest = "not_interested"

\* the catch of initiateCall swallows the error and execution goes on
AfterPlacementSwallowed(outcome) == "placed"

\* initiateCall after getCampaign and twilioService.initiateCall: a missing
\* campaign and a rejected placement are thrown to the caller, and only an
\* acknowledged placement goes on to activeCalls.set
AfterPlacement(outcome) == IF outcome = "ok" THEN "placed" ELSE "failed"

PlacementFailures == {"no_campaign", "carrier_error"}

\* initiateCall up to the carrier's acknowledgement: the carrier assigns the
\* next call id; the durable Call row (and the contact of a direct call) are
\* written by the caller of initiateCall
PlaceCall(c, row) ==
  /\ carrier[c] = "none"
  /\ \A d \in Sids : d < c => carrier[d] # "none"
  /\ carrier' = [carrier EXCEPT ![c] = AfterPlacement("ok")]
  /\ initResult' = [initResult EXCEPT ![c] = "sid"]
  /\ now' = now + 1
  /\ \/ /\ row = "norow"
        /\ UNCHANGED <<calls, contacts>>
     \/ /\ row = "row"
        /\ calls' = [calls EXCEPT ![c] = NewCallRow(c, 0)]
        /\ UNCHANGED contacts
     \/ /\ row = "contact"
        /\ contacts' = Append(contacts, NewContact(c, "direct", NoED))
        /\ calls' = [calls EXCEPT ![c] = NewCallRow(c, Len(contacts) + 1)]
  /\ UNCHANGED <<applied, activeCalls, heap, messages, proc, completedWrites, summaryCount,
                 scoreCount, whatsappCount, carrierEnded>>

\* initiateCall when the campaign is not found or the carrier rejects the
\* placement: the error is logged and thrown again
PlaceFail(c, outcome) ==
  /\ carrier[c] = "none"
  /\ \A d \in Sids : d < c => carrier[d] # "none"
  /\ carrier' = [carrier EXCEPT ![c] = AfterPlacement(outcome)]
  /\ initResult' = [initResult EXCEPT ![c] = "error"]
  /\ UNCHANGED <<applied, activeCalls, heap, calls, messages, contacts, proc, now, completedWrites,
                 summaryCount, scoreCount, whatsappCount, carrierEnded>>

\* initiateCall after the carrier's acknowledgement: activeCalls.set
TrackCall(c) ==
  /\ carrier[c] = "placed"
  /\ carrier' = [carrier EXCEPT ![c] = "tracked"]
  /\ heap' = [heap EXCEPT ![c] = NewActiveCall(c, now)]
  /\ activeCalls' = MapSet(activeCalls, c, c)
  /\ UNCHANGED <<calls, messages, contacts, proc, now, initResult, applied, completedWrites, summaryCount,
                 scoreCount, whatsappCount, carrierEnded>>

CanStart(p) ==
  /\ proc[p].pc = "idle"
  /\ \A q \in Procs : q < p => proc[q].pc # "idle"

\* a handler that has returned: its locals are gone, what stays is what it was
\* called with and what it returned
Finish(pr, doc) ==
  [IdleProc EXCEPT !.pc = "done", !.op = pr.op, !.sid = pr.sid, !.arg = pr.arg,
                   !.reply = pr.reply, !.gotReply = pr.gotReply, !.doc = doc,
                   !.endCalled = pr.endCalled,
                   !.gen = pr.gen, !.utt = pr.utt, !.fallback = pr.fallback,
                   !.failed = pr.failed, !.via = pr.via, !.atStart = pr.atStart,
                   !.http = IF pr.via = "direct" THEN 0 ELSE 200]

\* what the caller of endCall does once endCall has returned: handleUserInput
\* returns the hang-up document, handleCallStatusUpdate goes on to its own
\* updateCall
AfterEndCall(pr) ==
  IF pr.op = "turn" THEN Finish(pr, "hangup")
                    ELSE [pr EXCEPT !.pc = "sUpd"]

\* the first statements of endCall, run by the caller's continuation: the
\* registry lookup and, for a live session, the call of the summary generator
\* with the history as it is now; without a session only the carrier is told
\* to end the call
EnterEndCall(p, pr) ==
  LET c == pr.sid
      r == MapGet(activeCalls, c)
  IN IF r # NoRef
     THEN /\ proc' = [proc EXCEPT ![p] =
                 [pr EXCEPT !.pc = "eGetCall", !.eref = r,
                            !.summary = heap[r].conversationHistory]]
          /\ summaryCount' = [summaryCount EXCEPT ![c] = @ + 1]
          /\ UNCHANGED carrierEnded
     ELSE /\ proc' = [proc EXCEPT ![p] = AfterEndCall(pr)]
          /\ carrierEnded' = [carrierEnded EXCEPT ![c] = TRUE]
          /\ UNCHANGED summaryCount

\* POST /api/calls/:callId/process-speech, and the entry of handleUserInput
TurnStart(p, c, kind) ==
  /\ CanStart(p)
  /\ carrier[c] # "none"
  /\ LET pr == [IdleProc EXCEPT !.op = "turn", !.sid = c, !.arg = kind]
     IN proc' = [proc EXCEPT ![p] =
          CASE kind = "empty"     -> Finish(pr, "reprompt")
            [] kind = "terminate" -> Finish(pr, "hangup")
            [] OTHER ->
                 IF MapHas(activeCalls, c)
                 THEN [pr EXCEPT !.pc = "gen", !.ref = MapGet(activeCalls, c)]
                 ELSE Finish(pr, "apology")]
  /\ UNCHANGED <<activeCalls, heap, carrier, calls, messages, contacts, now, initResult, applied, completedWrites,
                 summaryCount, scoreCount, whatsappCount, carrierEnded>>

\* generateResponse resolves; the pair is pushed onto the history
GenReturn(p, r) ==
  /\ proc[p].pc = "gen"
  /\ heap' = [heap EXCEPT ![proc[p].ref] = PushTurn(@, p, ReplyFor(p))]
  /\ proc' = [proc EXCEPT ![p] = [@ EXCEPT !.pc = "getCall", !.reply = r, !.gotReply = TRUE]]
  /\ UNCHANGED <<activeCalls, carrier, calls, messages, contacts, now, initResult, applied, completedWrites,
                 summaryCount, scoreCount, whatsappCount, carrierEnded>>

\* the generator call fails inside generateResponse, whose catch resolves with
\* the fallback reply; handleUserInput pushes the pair as for any reply
GenFail(p, kind, utt) ==
  /\ proc[p].pc = "gen"
  /\ heap' = [heap EXCEPT ![proc[p].ref] = PushTurn(@, p, ReplyFor(p))]
  /\ LET fb == FallbackReply(kind, utt)
     IN proc' = [proc EXCEPT ![p] =
          [@ EXCEPT !.pc = "getCall", !.gotReply = TRUE, !.gen = kind, !.utt = utt,
                    !.reply = [shouldEndCall |-> fb.shouldEndCall,
                               extractedData |-> fb.extractedData],
                    !.fallback = fb.message]]
  /\ UNCHANGED <<activeCalls, carrier, calls, messages, contacts, now, initResult, applied, completedWrites,
                 summaryCount, scoreCount, whatsappCount, carrierEnded>>

\* the places of handleUserInput that await a storage call
TurnStoragePcs == {"getCall", "msgUser", "msgAsst", "updCollected", "updContact", "markWA"}

\* a storage call of handleUserInput rejects: the catch of handleUserInput
\* returns generateTwiML("I'm sorry, I'm having technical difficulties. ...")
StorageFail(p) ==
  /\ proc[p].op = "turn"
  /\ proc[p].pc \in TurnStoragePcs
  /\ proc' = [proc EXCEPT ![p] = Finish([@ EXCEPT !.failed = TRUE], "apology")]
  /\ UNCHANGED <<activeCalls, heap, carrier, calls, messages, contacts, now, initResult, applied, completedWrites,
                 summaryCount, scoreCount, whatsappCount, carrierEnded>>

\* storage.getCallByTwilioSid in handleUserInput
GetCall(p) ==
  /\ proc[p].pc = "getCall"
  /\ LET row == calls[proc[p].sid]
     IN proc' = [proc EXCEPT ![p] =
          IF row.exists
          THEN [@ EXCEPT !.pc = "msgUser", !.callContactId = row.contactId,
                         !.callWhatsappSent = row.whatsappSent]
          ELSE [@ EXCEPT !.pc = "pred"]]
  /\ UNCHANGED <<activeCalls, heap, carrier, calls, messages, contacts, now, initResult, applied, completedWrites,
                 summaryCount, scoreCount, whatsappCount, carrierEnded>>

\* storage.createCallMessage({role: 'user'})
MsgUser(p) ==
  /\ proc[p].pc = "msgUser"
  /\ messages' = [messages EXCEPT ![proc[p].sid] = Append(@, [role |-> "user", content |-> p])]
  /\ proc' = [proc EXCEPT ![p].pc = "msgAsst"]
  /\ UNCHANGED <<activeCalls, heap, carrier, calls, contacts, now, initResult, applied, completedWrites,
                 summaryCount, scoreCount, whatsappCount, carrierEnded>>

\* storage.createCallMessage({role: 'assistant'})
MsgAsst(p) ==
  /\ proc[p].pc = "msgAsst"
  /\ messages' = [messages EXCEPT ![proc[p].sid] =
                    Append(@, [role |-> "assistant", content |-> ReplyFor(p)])]
  /\ proc' = [proc EXCEPT ![p].pc = "updCollected"]
  /\ UNCHANGED <<activeCalls, heap, carrier, calls, contacts, now, initResult, applied, completedWrites,
                 summaryCount, scoreCount, whatsappCount, carrierEnded>>

\* storage.updateCall({collectedData: aiResponse.extractedData})
UpdCollected(p) ==
  /\ proc[p].pc = "updCollected"
  /\ LET ed == proc[p].reply.extractedData
     IN /\ calls' = [calls EXCEPT ![proc[p].sid] =
                       [@ EXCEPT !.hasCollected = TRUE, !.collectedData = ed]]
        /\ proc' = [proc EXCEPT ![p].pc =
                      IF proc[p].callContactId # 0 /\ (ed.whatsapp_number # "" \/ ed.email # "")
                      THEN "updContact" ELSE "pred"]
  /\ UNCHANGED <<activeCalls, heap, carrier, messages, contacts, now, initResult, applied, completedWrites,
                 summaryCount, scoreCount, whatsappCount, carrierEnded>>

\* storage.updateContact(call.contactId, {whatsappNumber?, email?})
UpdContact(p) ==
  /\ proc[p].pc = "updContact"
  /\ LET ed == proc[p].reply.extractedData
     IN /\ contacts' = [contacts EXCEPT ![proc[p].callContactId] =
                          UpdateContact(@, "", ed.email, ed.whatsapp_number)]
        /\ proc' = [proc EXCEPT ![p].pc =
                      IF ed.whatsapp_number # "" /\ ~proc[p].callWhatsappSent
                      THEN "sendWA" ELSE "pred"]
  /\ UNCHANGED <<activeCalls, heap, carrier, calls, messages, now, initResult, applied, completedWrites,
                 summaryCount, scoreCount, whatsappCount, carrierEnded>>

\* sendRealTimeWhatsAppMessage
SendWA(p) ==
  /\ proc[p].pc = "sendWA"
  /\ whatsappCount' = [whatsappCount EXCEPT ![proc[p].sid] = @ + 1]
  /\ proc' = [proc EXCEPT ![p].pc = "markWA"]
  /\ UNCHANGED <<activeCalls, heap, carrier, calls, messages, contacts, now, initResult, applied, completedWrites,
                 summaryCount, scoreCount, carrierEnded>>

\* storage.updateCall({whatsappSent: true})
MarkWA(p) ==
  /\ proc[p].pc = "markWA"
  /\ calls' = [calls EXCEPT ![proc[p].sid].whatsappSent = TRUE]
  /\ proc' = [proc EXCEPT ![p].pc = "pred"]
  /\ UNCHANGED <<activeCalls, heap, carrier, messages, contacts, now, initResult, applied, completedWrites,
                 summaryCount, scoreCount, whatsappCount, carrierEnded>>

\* the end-of-call test and what follows it: endCall, or the continue document
Pred(p) ==
  /\ proc[p].pc = "pred"
  /\ LET pr == proc[p]
     IN IF ShouldFinalize(pr.reply)
        THEN EnterEndCall(p, [pr EXCEPT !.endCalled = TRUE])
        ELSE /\ proc' = [proc EXCEPT ![p] = Finish(pr, "continue")]
             /\ UNCHANGED <<summaryCount, carrierEnded>>
  /\ UNCHANGED <<activeCalls, heap, carrier, calls, messages, contacts, now, initResult, applied, completedWrites,
                 scoreCount, whatsappCount>>

\* endCall: storage.getCallByTwilioSid, the duration from the session,
\* storage.getCampaign and calculateSuccessScore (s is the generator's score)
EGetCall(p, s) ==
  /\ proc[p].pc = "eGetCall"
  /\ LET row == calls[proc[p].sid]
     IN IF row.exists
        THEN /\ proc' = [proc EXCEPT ![p] =
                    [@ EXCEPT !.pc = "eUpdCall", !.ecallHasCollected = row.hasCollected,
                              !.ecallData = row.collectedData, !.ecallContactId = row.contactId,
                              !.duration = now - heap[proc[p].eref].startTime,
                              !.score = s]]
             /\ scoreCount' = [scoreCount EXCEPT ![proc[p].sid] = @ + 1]
        ELSE /\ s = CHOOSE x \in Scores : TRUE
             /\ proc' = [proc EXCEPT ![p].pc = "eDelete"]
             /\ UNCHANGED scoreCount
  /\ UNCHANGED <<activeCalls, heap, carrier, calls, messages, contacts, now, initResult, applied, completedWrites,
                 summaryCount, whatsappCount, carrierEnded>>

\* endCall: storage.updateCall({status: 'completed', endTime, duration, ...})
EUpdCall(p) ==
  /\ proc[p].pc = "eUpdCall"
  /\ calls' = [calls EXCEPT ![proc[p].sid] =
                 [@ EXCEPT !.status = "completed", !.endTime = now,
                           !.duration = proc[p].duration, !.summarized = TRUE,
                           !.conversationSummary = proc[p].summary,
                           !.successScore = proc[p].score]]
  /\ completedWrites' = [completedWrites EXCEPT ![proc[p].sid] = @ + 1]
  /\ proc' = [proc EXCEPT ![p].pc =
                CASE proc[p].ecallHasCollected /\ proc[p].ecallContactId # 0 -> "eUpdContact"
                  [] proc[p].ecallHasCollected /\ proc[p].ecallContactId = 0
                     /\ proc[p].ecallData.name # "" -> "eCreateContact"
                  [] OTHER -> "eDelete"]
  /\ UNCHANGED <<activeCalls, heap, carrier, messages, contacts, now, initResult, applied,
                 summaryCount, scoreCount, whatsappCount, carrierEnded>>

\* endCall: storage.updateContact with the collected data
EUpdContact(p) ==
  /\ proc[p].pc = "eUpdContact"
  /\ LET ed == proc[p].ecallData
     IN contacts' = [contacts EXCEPT ![proc[p].ecallContactId] =
                       UpdateContact(@, ed.name, ed.email, ed.whatsapp_number)]
  /\ proc' = [proc EXCEPT ![p].pc = "eDelete"]
  /\ UNCHANGED <<activeCalls, heap, carrier, calls, messages, now, initResult, applied, completedWrites,
                 summaryCount, scoreCount, whatsappCount, carrierEnded>>

\* endCall: storage.createContact when a name was collected
ECreateContact(p) ==
  /\ proc[p].pc = "eCreateContact"
  /\ LET ed == proc[p].ecallData
     IN contacts' = Append(contacts, NewContact(calls[proc[p].sid].phoneNumber, ed.name, ed))
  /\ proc' = [proc EXCEPT ![p] = [@ EXCEPT !.pc = "eSetContactId",
                                           !.newContactId = Len(contacts) + 1]]
  /\ UNCHANGED <<activeCalls, heap, carrier, calls, messages, now, initResult, applied, completedWrites,
                 summaryCount, scoreCount, whatsappCount, carrierEnded>>

\* endCall: storage.updateCall({contactId: newContact.id})
ESetContactId(p) ==
  /\ proc[p].pc = "eSetContactId"
  /\ calls' = [calls EXCEPT ![proc[p].sid].contactId = proc[p].newContactId]
  /\ proc' = [proc EXCEPT ![p].pc = "eDelete"]
  /\ UNCHANGED <<activeCalls, heap, carrier, messages, contacts, now, initResult, applied, completedWrites,
                 summaryCount, scoreCount, whatsappCount, carrierEnded>>

\* endCall: activeCalls.delete, twilioService.endCall, and the return
EDelete(p) ==
  /\ proc[p].pc = "eDelete"
  /\ activeCalls' = MapDelete(activeCalls, proc[p].sid)
  /\ carrierEnded' = [carrierEnded EXCEPT ![proc[p].sid] = TRUE]
  /\ proc' = [proc EXCEPT ![p] = AfterEndCall(@)]
  /\ UNCHANGED <<heap, carrier, calls, messages, contacts, now, initResult, applied, completedWrites,
                 summaryCount, scoreCount, whatsappCount>>

\* a status webhook arrives: handleCallStatusUpdate is called
StatusStart(p, c, st) ==
  /\ CanStart(p)
  /\ carrier[c] # "none"
  /\ proc' = [proc EXCEPT ![p] =
                [IdleProc EXCEPT !.op = "status", !.sid = c, !.arg = st, !.pc = "sGetCall"]]
  /\ UNCHANGED <<activeCalls, heap, carrier, calls, messages, contacts, now, initResult, applied, completedWrites,
                 summaryCount, scoreCount, whatsappCount, carrierEnded>>

\* handleCallStatusUpdate: storage.getCallByTwilioSid and the switch
SGetCall(p) ==
  /\ proc[p].pc = "sGetCall"
  /\ IF ~calls[proc[p].sid].exists
     THEN /\ proc' = [proc EXCEPT ![p] = Finish(@, "")]
          /\ UNCHANGED <<summaryCount, carrierEnded>>
     ELSE IF proc[p].arg \in TerminalStatuses
     THEN EnterEndCall(p, [proc[p] EXCEPT !.endCalled = TRUE])
     ELSE /\ proc' = [proc EXCEPT ![p] =
                      IF @.arg = "answered" THEN [@ EXCEPT !.pc = "sActive"] ELSE Finish(@, "")]
          /\ UNCHANGED <<summaryCount, carrierEnded>>
  /\ UNCHANGED <<activeCalls, heap, carrier, calls, messages, contacts, now, initResult, applied, completedWrites,
                 scoreCount, whatsappCount>>

\* handleCallStatusUpdate, case 'answered': storage.updateCall({status: 'active'})
SActive(p) ==
  /\ proc[p].pc = "sActive"
  /\ calls' = [calls EXCEPT ![proc[p].sid].status = "active"]
  /\ proc' = [proc EXCEPT ![p] = Finish(@, "")]
  /\ UNCHANGED <<activeCalls, heap, carrier, messages, contacts, now, initResult, applied, completedWrites,
                 summaryCount, scoreCount, whatsappCount, carrierEnded>>

\* handleCallStatusUpdate, terminal case: storage.updateCall({status, endTime})
\* after endCall has returned
SUpd(p) ==
  /\ proc[p].pc = "sUpd"
  /\ calls' = [calls EXCEPT ![proc[p].sid] =
                 [@ EXCEPT !.status = IF proc[p].arg = "completed" THEN "completed" ELSE "failed",
                           !.endTime = now]]
  /\ completedWrites' = [completedWrites EXCEPT ![proc[p].sid] =
                           IF proc[p].arg = "completed" THEN @ + 1 ELSE @]
  /\ proc' = [proc EXCEPT ![p] = Finish(@, "")]
  /\ UNCHANGED <<activeCalls, heap, carrier, messages, contacts, now, initResult, applied,
                 summaryCount, scoreCount, whatsappCount, carrierEnded>>

Next ==
  \/ \E c \in Sids, row \in {"norow", "row", "contact"} : PlaceCall(c, row)
  \/ \E c \in Sids : TrackCall(c)
  \/ \E p \in Procs, c \in Sids, kind \in UtteranceKinds : TurnStart(p, c, kind)
  \/ \E p \in Procs, r \in Replies : GenReturn(p, r)
  \/ \E p \in Procs : GetCall(p)
  \/ \E p \in Procs : MsgUser(p)
  \/ \E p \in Procs : MsgAsst(p)
  \/ \E p \in Procs : UpdCollected(p)
  \/ \E p \in Procs : UpdContact(p)
  \/ \E p \in Procs : SendWA(p)
  \/ \E p \in Procs : MarkWA(p)
  \/ \E p \in Procs : Pred(p)
  \/ \E p \in Procs, s \in Scores : EGetCall(p, s)
  \/ \E p \in Procs : EUpdCall(p)
  \/ \E p \in Procs : EUpdContact(p)
  \/ \E p \in Procs : ECreateContact(p)
  \/ \E p \in Procs : ESetContactId(p)
  \/ \E p \in Procs : EDelete(p)
  \/ \E p \in Procs, c \in Sids, st \in CarrierStatuses : StatusStart(p, c, st)
  \/ \E p \in Procs : SGetCall(p)
  \/ \E p \in Procs : SActive(p)
  \/ \E p \in Procs : SUpd(p)

Spec == Init /\ [][Next]_vars

\* ------------------------------------------------------------- the routes
\* what the process holds for a call id when a webhook for it arrives: a
\* session in the registry, else a durable Call row only, else nothing
Situation(c) ==
  IF MapHas(activeCalls, c) THEN "live"
  ELSE IF calls[c].exists THEN "row" ELSE "unknown"

\* the numbers dialled through POST /api/calls/initiate
DirectNumbers == {1}

\* POST /api/calls/initiate: storage.createContact({name: 'Direct Call <n>',
\* phone}) for the number as it comes, without a lookup, then the call is
\* placed for that contact
InitiateDirect(c, ph) ==
  /\ carrier[c] = "none"
  /\ \A d \in Sids : d < c => carrier[d] # "none"
  /\ carrier' = [carrier EXCEPT ![c] = AfterPlacement("ok")]
  /\ initResult' = [initResult EXCEPT ![c] = "sid"]
  /\ now' = now + 1
  /\ contacts' = Append(contacts, NewContact(ph, "direct", NoED))
  /\ calls' = [calls EXCEPT ![c] =
                 [NewCallRow(c, Len(contacts) + 1) EXCEPT !.phoneNumber = ph]]
  /\ UNCHANGED <<applied, activeCalls, heap, messages, proc, completedWrites, summaryCount,
                 scoreCount, whatsappCount, carrierEnded>>

\* POST /api/calls/webhook/answer up to storage.getCampaign: an unknown
\* campaign is answered with status 404
AnswerStart(p, c, found) ==
  /\ CanStart(p)
  /\ carrier[c] # "none"
  /\ LET pr == [IdleProc EXCEPT !.op = "answer", !.sid = c, !.via = "answer",
                                !.atStart = Situation(c)]
     IN proc' = [proc EXCEPT ![p] =
          IF found THEN [pr EXCEPT !.pc = "aGetCall"]
                   ELSE [Finish(pr, "") EXCEPT !.http = 404]]
  /\ UNCHANGED <<activeCalls, heap, carrier, calls, messages, contacts, now, initResult, applied, completedWrites,
                 summaryCount, scoreCount, whatsappCount, carrierEnded>>

\* callManager.ensureCallIsTracked: a call id without a session gets a new
\* one, with an empty history; a call id that has a session keeps it
EnsureCallIsTracked(c, r) ==
  IF MapHas(activeCalls, c)
  THEN UNCHANGED <<activeCalls, heap>>
  ELSE /\ heap' = [heap EXCEPT ![r] = NewActiveCall(c, now)]
       /\ activeCalls' = MapSet(activeCalls, c, r)

\* POST /api/calls/webhook/answer from storage.getCall on: only a Call row
\* whose status is 'active' is handed to ensureCallIsTracked; the intro
\* document is sent
AnswerGetCall(p) ==
  /\ proc[p].pc = "aGetCall"
  /\ LET c == proc[p].sid
         dbCall == calls[c]
     IN IF dbCall.exists /\ dbCall.status = "active"
        THEN EnsureCallIsTracked(c, MaxCalls + p)
        ELSE UNCHANGED <<activeCalls, heap>>
  /\ proc' = [proc EXCEPT ![p] = Finish(@, "intro")]
  /\ UNCHANGED <<carrier, calls, messages, contacts, now, initResult, applied, completedWrites,
                 summaryCount, scoreCount, whatsappCount, carrierEnded>>

RecordingKinds == {"empty", "normal"}

\* POST /api/calls/recording-complete: the recording is transcribed and the
\* text is handed to the call manager as it is; then the entry of handleUserInput
RecordingStart(p, c, kind) ==
  /\ CanStart(p)
  /\ carrier[c] # "none"
  /\ LET pr == [IdleProc EXCEPT !.op = "turn", !.sid = c, !.arg = kind,
                                !.via = "recording", !.atStart = Situation(c)]
     IN proc' = [proc EXCEPT ![p] =
          IF MapHas(activeCalls, c)
          THEN [pr EXCEPT !.pc = "gen", !.ref = MapGet(activeCalls, c)]
          ELSE Finish(pr, "apology")]
  /\ UNCHANGED <<activeCalls, heap, carrier, calls, messages, contacts, now, initResult, applied, completedWrites,
                 summaryCount, scoreCount, whatsappCount, carrierEnded>>

\* the statuses for which POST /api/calls/webhook/status finalizes the call
RouteFinalStatuses == {"completed", "failed"}

\* POST /api/calls/webhook/status: for 'completed' and 'failed' the call is
\* finalized, for every other status 200 is sent at once
StatusRouteStart(p, c, st) ==
  /\ CanStart(p)
  /\ carrier[c] # "none"
  /\ LET pr == [IdleProc EXCEPT !.op = "status", !.sid = c, !.arg = st,
                                !.via = "statusRoute", !.atStart = Situation(c)]
     IN proc' = [proc EXCEPT ![p] =
          IF st \in RouteFinalStatuses THEN [pr EXCEPT !.pc = "sGetCall"]
                                       ELSE Finish(pr, "")]
  /\ UNCHANGED <<activeCalls, heap, carrier, calls, messages, contacts, now, initResult, applied, completedWrites,
                 summaryCount, scoreCount, whatsappCount, carrierEnded>>

\* the finalization called by the status route throws (a storage call of
\* handleCallStatusUpdate rejects, outside any try): the catch of the route
\* sends status 500
StatusRouteThrow(p) ==
  /\ proc[p].via = "statusRoute"
  /\ proc[p].pc \in {"sGetCall", "sUpd"}
  /\ proc' = [proc EXCEPT ![p] = [Finish([@ EXCEPT !.failed = TRUE], "") EXCEPT !.http = 500]]
  /\ UNCHANGED <<activeCalls, heap, carrier, calls, messages, contacts, now, initResult, applied, completedWrites,
                 summaryCount, scoreCount, whatsappCount, carrierEnded>>

\* the webhooks as the routes receive them
NextRoutes ==
  \/ \E c \in Sids, row \in {"norow", "contact"} : PlaceCall(c, row)
  \/ \E c \in Sids, ph \in DirectNumbers : InitiateDirect(c, ph)
  \/ \E c \in Sids : TrackCall(c)
  \/ \E p \in Procs, c \in Sids, found \in BOOLEAN : AnswerStart(p, c, found)
  \/ \E p \in Procs : AnswerGetCall(p)
  \/ \E p \in Procs, c \in Sids, kind \in UtteranceKinds : TurnStart(p, c, kind)
  \/ \E p \in Procs, c \in Sids, kind \in RecordingKinds : RecordingStart(p, c, kind)
  \/ \E p \in Procs, r \in FaultReplies : GenReturn(p, r)
  \/ \E p \in Procs : GetCall(p)
  \/ \E p \in Procs : MsgUser(p)
  \/ \E p \in Procs : MsgAsst(p)
  \/ \E p \in Procs : UpdCollected(p)
  \/ \E p \in Procs : UpdContact(p)
  \/ \E p \in Procs : SendWA(p)
  \/ \E p \in Procs : MarkWA(p)
  \/ \E p \in Procs : Pred(p)
  \/ \E p \in Procs, s \in Scores : EGetCall(p, s)
  \/ \E p \in Procs : EUpdCall(p)
  \/ \E p \in Procs : EUpdContact(p)
  \/ \E p \in Procs : EDelete(p)
  \/ \E p \in Procs, c \in Sids, st \in CarrierStatuses : StatusRouteStart(p, c, st)
  \/ \E p \in Procs, c \in Sids : StatusStart(p, c, "answered")
  \/ \E p \in Procs : SGetCall(p)
  \/ \E p \in Procs : SActive(p)
  \/ \E p \in Procs : SUpd(p)
  \/ \E p \in Procs : StatusRouteThrow(p)

SpecRoutes == Init /\ [][NextRoutes]_vars

\* the turns of a call when placements, generator calls and storage calls
\* may fail; no reply carries a name here, so endCall never comes to create a
\* contact
NextFaults ==
  \/ \E c \in Sids, row \in {"norow", "contact"} : PlaceCall(c, row)
  \/ \E c \in Sids, o \in PlacementFailures : PlaceFail(c, o)
  \/ \E c \in Sids : TrackCall(c)
  \/ \E p \in Procs, c \in Sids, kind \in UtteranceKinds : TurnStart(p, c, kind)
  \/ \E p \in Procs, r \in FaultReplies : GenReturn(p, r)
  \/ \E p \in Procs, k \in GeneratorFailures, u \in Utterances : GenFail(p, k, u)
  \/ \E p \in Procs : GetCall(p)
  \/ \E p \in Procs : MsgUser(p)
  \/ \E p \in Procs : MsgAsst(p)
  \/ \E p \in Procs : UpdCollected(p)
  \/ \E p \in Procs : UpdContact(p)
  \/ \E p \in Procs : SendWA(p)
  \/ \E p \in Procs : MarkWA(p)
  \/ \E p \in Procs : StorageFail(p)
  \/ \E p \in Procs : Pred(p)
  \/ \E p \in Procs, s \in Scores : EGetCall(p, s)
  \/ \E p \in Procs : EUpdCall(p)
  \/ \E p \in Procs : EUpdContact(p)
  \/ \E p \in Procs : EDelete(p)

SpecFaults == Init /\ [][NextFaults]_vars

\* the places of endCall that await a storage call: getCallByTwilioSid and
\* getCampaign, updateCall, updateContact, createContact, updateCall
EndCallStoragePcs == {"eGetCall", "eUpdCall", "eUpdContact", "eCreateContact", "eSetContactId"}

\* a storage call of endCall rejects: the catch of endCall logs the error and
\* endCall returns, past activeCalls.delete and twilioService.endCall
EndCallFail(p) ==
  /\ proc[p].pc \in EndCallStoragePcs
  /\ proc' = [proc EXCEPT ![p] = AfterEndCall([@ EXCEPT !.failed = TRUE])]
  /\ UNCHANGED <<activeCalls, heap, carrier, calls, messages, contacts, now, initResult, applied,
                 completedWrites, summaryCount, scoreCount, whatsappCount, carrierEnded>>

\* finalizations whose storage calls may fail: calls with and without a Call
\* row, ended by a turn or by a terminal status
NextEnd ==
  \/ \E c \in Sids, row \in {"norow", "contact"} : PlaceCall(c, row)
  \/ \E c \in Sids : TrackCall(c)
  \/ \E p \in Procs, c \in Sids : TurnStart(p, c, "normal")
  \/ \E p \in Procs, r \in FaultReplies : GenReturn(p, r)
  \/ \E p \in Procs : GetCall(p)
  \/ \E p \in Procs : MsgUser(p)
  \/ \E p \in Procs : MsgAsst(p)
  \/ \E p \in Procs : UpdCollected(p)
  \/ \E p \in Procs : UpdContact(p)
  \/ \E p \in Procs : SendWA(p)
  \/ \E p \in Procs : MarkWA(p)
  \/ \E p \in Procs : Pred(p)
  \/ \E p \in Procs, s \in Scores : EGetCall(p, s)
  \/ \E p \in Procs : EUpdCall(p)
  \/ \E p \in Procs : EUpdContact(p)
  \/ \E p \in Procs : EDelete(p)
  \/ \E p \in Procs : EndCallFail(p)
  \/ \E p \in Procs, c \in Sids : StatusStart(p, c, "completed")
  \/ \E p \in Procs : SGetCall(p)
  \/ \E p \in Procs : SUpd(p)

SpecEnd == Init /\ [][NextEnd]_vars

\* ---------------------------------------------------------- pure functions
\* everything but the application of a pure function
lifecycle == <<activeCalls, heap, carrier, calls, messages, contacts, proc, now, initResult,
               completedWrites, summaryCount, scoreCount, whatsappCount, carrierEnded>>

\* the fields of a speech webhook: SpeechResult, UnstableSpeechResult, Digits,
\* and the recording (none, one transcribed as "", one transcribed as "w")
SpeechResults   == {"", " ", "s"}
UnstableResults == {"", "u"}
DigitInputs     == {"", "d"}
Recordings      == {"none", "silent", "w"}

Trim(x) == IF x = " " THEN "" ELSE x

\* directSpeechService.processTwilioSpeechInput and validateSpeechInput: the
\* final result, else the unstable one, else the digits, trimmed
Reconcile(primary, unstable, digits) ==
  IF Trim(primary) # "" THEN Trim(primary)
  ELSE IF Trim(unstable) # "" THEN Trim(unstable)
  ELSE Trim(digits)

\* OpenAIService.transcribeAudio
Transcribe(rec) == IF rec = "w" THEN "w" ELSE ""

\* process-speech: speechText after the carrier's own recognition; the three
\* fields are reconciled only `if (req.body.SpeechResult)`
SpeechText(sr, ur, dg) == IF sr # "" THEN Reconcile(sr, ur, dg) ELSE ""

\* process-speech: speechText after the Whisper fallback, which runs when the
\* text is still empty and the request has a RecordingUrl
FinalSpeechText(sr, ur, dg, rec) ==
  LET t == SpeechText(sr, ur, dg)
  IN IF Trim(t) = "" /\ rec # "none" THEN Transcribe(rec) ELSE t

\* the process-speech route works out the utterance of a speech webhook
ProcessSpeech(sr, ur, dg, rec) ==
  /\ applied' = [fn |-> "process-speech", args |-> <<sr, ur, dg, rec>>,
                 result |-> <<SpeechText(sr, ur, dg), FinalSpeechText(sr, ur, dg, rec)>>]
  /\ UNCHANGED lifecycle

\* the two TwilioService classes of twilioService.ts
Versions == {1, 2}

TwiMLKinds == {"say", "gather", "hangup"}

\* the options of generateTwiML; "" and FALSE stand for an absent field
TwiMLOptions ==
  [text : {"", "t"}, audioUrl : {"", "a"}, language : {"", "hi"},
   addTypingSound : BOOLEAN, addThinkingPause : BOOLEAN,
   action : {"", "/next"}, recordingCallback : {"", "/rec"}]

\* the verbs of a voice document
Verb(v, a, b) == [verb |-> v, a |-> a, b |-> b]
Pause(len)    == Verb("Pause", len, "")
Play(url)     == Verb("Play", url, "")
Say(txt, lng) == Verb("Say", txt, lng)
Hangup        == Verb("Hangup", "", "")

\* const language = options.language ? `${options.language}-IN` : 'en-IN'
Language(o) == IF o.language # "" THEN o.language \o "-IN" ELSE "en-IN"

\* how the text of a document is voiced: the audio when there is an audioUrl;
\* without one the first class says the text with the Twilio voice, the second
\* class only pauses
Voice(v, o, txt, silence) ==
  IF o.audioUrl # "" THEN <<Play(o.audioUrl)>>
  ELSE IF v = 1 THEN <<Say(txt, Language(o))>> ELSE <<Pause(silence)>>

\* the record instruction is written with the options as they come
RecordVerbNoDefault(o) == Verb("Record", o.action, o.recordingCallback)

\* twiml.record({recordingStatusCallback: options.recordingCallback || ...,
\* action: options.action || ...})
RecordVerb(o) ==
  Verb("Record",
       IF o.action # "" THEN o.action ELSE "/api/calls/process-speech",
       IF o.recordingCallback # "" THEN o.recordingCallback
                                   ELSE "/api/calls/recording-complete")

\* TwilioService.generateTwiML(action, options) of class v
GenerateTwiML(v, kind, o) ==
  LET typing  == IF o.addTypingSound
                 THEN <<Pause("1")>> \o
                      (IF o.addThinkingPause /\ kind = "gather" THEN <<Pause("1.5")>> ELSE <<>>)
                 ELSE <<>>
      half    == IF o.addTypingSound THEN <<Pause("0.5")>> ELSE <<>>
      body    ==
        CASE kind = "say" ->
               Voice(v, o, IF o.text # "" THEN o.text ELSE "Hello", "2")
          [] kind = "gather" ->
               (IF o.text # "" THEN half \o Voice(v, o, o.text, "2") ELSE <<>>)
               \o half
               \o <<RecordVerb(o)>>
               \o (IF v = 1 THEN <<Say("I didn't catch that. Let me continue.", Language(o))>>
                            ELSE <<>>)
          [] kind = "hangup" ->
               (IF o.text # "" THEN Voice(v, o, o.text, "1") ELSE <<>>)
               \o <<Hangup>>
  IN typing \o body

\* a document is rendered
RenderTwiML(v, kind, o) ==
  /\ applied' = [fn |-> "generateTwiML", args |-> <<v, kind, o>>,
                 result |-> GenerateTwiML(v, kind, o)]
  /\ UNCHANGED lifecycle

\* what a customer can say, by the keywords found in it: the tests are
\* substring tests (customerSaid.includes), and "not interested" holds "no"
SpokenUtterances == {u \in SUBSET Keywords : "not interested" \in u => "no" \in u}

\* the generator call of generateResponse throws and its catch answers
CatchGenerateResponse(kind, utt) ==
  /\ applied' = [fn |-> "generateResponse.catch", args |-> <<kind, utt>>,
                 result |-> FallbackReply(kind, utt)]
  /\ UNCHANGED lifecycle

\* JavaScript numbers: an integer value, or NaN
Num(n) == [nan |-> FALSE, val |-> n]
NaN    == [nan |-> TRUE, val |-> 0]

\* Math.min and Math.max: NaN when an argument is NaN
MathMin(a, b) == IF a.nan \/ b.nan THEN NaN ELSE IF a.val <= b.val THEN a ELSE b
MathMax(a, b) == IF a.nan \/ b.nan THEN NaN ELSE IF a.val >= b.val THEN a ELSE b

\* what the generator answers when asked for a score (message.content)
ScoreReplies == {"", "85", "0", "250", "-5", "7.5", "high", "Score: 85"}

\* parseInt: the integer the text starts with, NaN when it starts with none
ParseInt(str) ==
  CASE str = "50"  -> Num(50)
    [] str = "85"  -> Num(85)
    [] str = "0"   -> Num(0)
    [] str = "250" -> Num(250)
    [] str = "-5"  -> Num(0 - 5)
    [] str = "7.5" -> Num(7)
    [] OTHER       -> NaN

\* how the request for a score comes out: the generator replies, fails with a
\* quota error or with another error, or the campaign of the call is missing
ScoreOutcomes ==
  {[kind |-> "reply", content |-> t] : t \in ScoreReplies}
  \cup {[kind |-> k, content |-> ""] : k \in {"quota", "error", "no_campaign"}}

QuotaScore   == 75
DefaultScore == 50

\* Math.max(1, Math.min(100, score))
Clamp(x) == MathMax(Num(1), MathMin(Num(100), x))

\* calculateSuccessScore, and `campaign ? await calculateSuccessScore(..) : 50`
\* of endCall
SuccessScore(o) ==
  CASE o.kind = "no_campaign" -> Num(DefaultScore)
    [] o.kind = "quota"       -> Num(QuotaScore)
    [] o.kind = "error"       -> Num(DefaultScore)
    [] OTHER -> Clamp(ParseInt(IF o.content # "" THEN o.content ELSE "50"))

\* endCall works out the successScore it writes
CalculateSuccessScore(o) ==
  /\ applied' = [fn |-> "calculateSuccessScore", args |-> <<o>>, result |-> SuccessScore(o)]
  /\ UNCHANGED lifecycle

\* how the steps of processAudioRealtime come out: fs.writeFileSync,
\* storage.getCampaign, the generator call, and the content of its reply (not
\* JSON, empty, a reply that goes on, a reply with should_end)
AudioOutcomes ==
  [write : {"ok", "throws"}, campaign : {"ok", "throws"}, generator : {"ok", "throws"},
   content : {"invalid", "", "continue", "end"}]

\* DirectAudioService.processAudioRealtime: whether the temporary file was
\* written, whether its deferred deletion (setTimeout(unlinkSync)) was
\* scheduled, and the document returned
ProcessAudioRealtime(o) ==
  IF o.write = "throws"
  THEN [written |-> FALSE, cleanupScheduled |-> FALSE, doc |-> "fallback"]
  ELSE IF o.campaign = "throws" \/ o.generator = "throws" \/ o.content = "invalid"
  THEN [written |-> TRUE, cleanupScheduled |-> FALSE, doc |-> "fallback"]
  ELSE IF o.content = "end"
  THEN [written |-> TRUE, cleanupScheduled |-> FALSE, doc |-> "hangup"]
  ELSE [written |-> TRUE, cleanupScheduled |-> TRUE, doc |-> "gather"]

\* a chunk of audio is processed
ProcessAudio(o) ==
  /\ applied' = [fn |-> "processAudioRealtime", args |-> <<o>>,
                 result |-> ProcessAudioRealtime(o)]
  /\ UNCHANGED lifecycle

NextPure ==
  \/ \E o \in AudioOutcomes : ProcessAudio(o)
  \/ \E o \in ScoreOutcomes : CalculateSuccessScore(o)
  \/ \E kind \in GeneratorFailures, utt \in SpokenUtterances : CatchGenerateResponse(kind, utt)
  \/ \E v \in Versions, kind \in TwiMLKinds, o \in TwiMLOptions : RenderTwiML(v, kind, o)
  \/ \E sr \in SpeechResults, ur \in UnstableResults, dg \in DigitInputs, rec \in Recordings :
       ProcessSpeech(sr, ur, dg, rec)

SpecPure == Init /\ [][NextPure]_vars

\* ------------------------------------------------------------------ claims
Live(c) == MapHas(activeCalls, c)

\* a session object that was created and is no longer in the registry
Removed(r) == heap[r] # NoObj /\ ~\E e \in activeCalls : e.ref = r

History(r) == heap[r].conversationHistory

TurnDone(p) == proc[p].op = "turn" /\ proc[p].pc = "done" /\ proc[p].gotReply

\* the place of turn u's user entry in a history that holds it
Pos(h, u) == CHOOSE i \in 1..Len(h) : h[i].role = "user" /\ h[i].content = u

InHistory(h, u) == \E i \in 1..Len(h) : h[i].role = "user" /\ h[i].content = u

\* C1: finalization is idempotent: however often and from whichever handlers
\* finalization is invoked for a call id, the Call gets one `completed` status
\* write, one summary is generated and one success score is computed.
C1_FinalizationOnce ==
  \A c \in Sids : completedWrites[c] <= 1 /\ summaryCount[c] <= 1 /\ scoreCount[c] <= 1

\* C2: a session is never mutated after its removal from the registry: no step
\* appends to the history of a removed session, and no finalization writes the
\* Call of a session that is already removed.
C2_NoUseAfterRemoval ==
  [][ /\ \A r \in Sids : Removed(r) => heap'[r] = heap[r]
      /\ \A p \in Procs : (proc[p].pc = "eUpdCall" /\ Removed(proc[p].eref))
                            => proc'[p] = proc[p] ]_vars

\* C3: a terminal status for a call id whose session was finalized earlier and
\* is absent from the registry is a no-op: handleCallStatusUpdate never goes on
\* to its status/endTime write after endCall found no session.
C3_ForcedPathGuarded ==
  \A p \in Procs : ~(/\ proc[p].op = "status" /\ proc[p].pc = "sUpd"
                     /\ proc[p].eref = NoRef /\ Removed(proc[p].sid))

\* C4: a Call's status only moves forward: once it is completed or failed no
\* step sets it back to active or initiated.
C4_StatusForward ==
  [][ \A c \in Sids : (calls[c].exists /\ calls[c].status \in {"completed", "failed"})
                        => calls'[c].status \notin {"active", "initiated"} ]_vars

\* C5: the turns of one call id are in the history in delivery order: the user
\* entries of a history are in the order in which their webhooks arrived.
C5_DeliveryOrder ==
  \A r \in Sids : \A i, j \in 1..Len(History(r)) :
     (i < j /\ History(r)[i].role = "user" /\ History(r)[j].role = "user")
       => History(r)[i].content < History(r)[j].content

\* C6: in every state the history of every session has even length and is made
\* of adjacent (user, assistant) pairs, the assistant entry being the reply
\* generated for the user entry before it.
C6_HistoryPairs ==
  \A r \in Sids :
     /\ Len(History(r)) % 2 = 0
     /\ \A i \in 1..Len(History(r)) :
          i % 2 = 1 => /\ History(r)[i].role = "user"
                       /\ i + 1 <= Len(History(r))
                       /\ History(r)[i + 1].role = "assistant"
                       /\ History(r)[i + 1].content = ReplyFor(History(r)[i].content)

\* two overlapping turns of one call have both been appended, the one that
\* arrived second first
C6_Witness ==
  \E r \in Sids : Len(History(r)) = 4 /\ History(r)[1].content = 2
                  /\ \A p \in Procs : proc[p].pc = "done"

\* C7: the registry holds at most one session per call id, and the key
\* (twilioCallSid) and the startTime of a session do not change while it is in
\* the registry.
C7_OneSessionFixedKey ==
  [][ /\ \A e1, e2 \in activeCalls' : e1.key = e2.key => e1 = e2
      /\ \A e \in activeCalls' : heap'[e.ref].twilioCallSid = e.key
      /\ \A c \in Sids : (Live(c) /\ Live(c)') =>
            /\ MapGet(activeCalls', c) = MapGet(activeCalls, c)
            /\ heap'[MapGet(activeCalls, c)].twilioCallSid = heap[MapGet(activeCalls, c)].twilioCallSid
            /\ heap'[MapGet(activeCalls, c)].startTime = heap[MapGet(activeCalls, c)].startTime
    ]_vars

\* two sessions are live, created at different times, and a turn has been
\* appended to one of them
C7_Witness ==
  /\ Cardinality(activeCalls) = 2
  /\ heap[1].startTime # heap[2].startTime
  /\ \E r \in Sids : Live(r) /\ Len(History(r)) > 0

C9_CollectedOverCall ==
  \A p, q \in Procs :
     ( /\ TurnDone(p) /\ TurnDone(q) /\ proc[p].sid = proc[q].sid
       /\ InHistory(History(proc[p].sid), p) /\ InHistory(History(proc[p].sid), q)
       /\ Pos(History(proc[p].sid), q) < Pos(History(proc[p].sid), p)
       /\ ~proc[q].reply.shouldEndCall /\ ~proc[p].reply.shouldEndCall
       /\ proc[q].reply.extractedData.whatsapp_number # ""
       /\ proc[q].reply.extractedData.email = ""
       /\ proc[p].reply.extractedData.email # ""
       /\ proc[p].reply.extractedData.whatsapp_number = "" )
     => proc[p].doc = "hangup"

\* C10: once the turn webhook of an utterance with termination intent has been
\* handled for a call that initiateCall has tracked, the session is absent from
\* the registry and the Call is completed.
C10_TerminationIntentFinalizes ==
  \A p \in Procs :
     (/\ proc[p].op = "turn" /\ proc[p].arg = "terminate" /\ proc[p].pc = "done"
      /\ heap[proc[p].sid] # NoObj)
       => /\ ~Live(proc[p].sid)
          /\ calls[proc[p].sid].exists => calls[proc[p].sid].status = "completed"

\* C11: a turn whose utterance is empty after reconciliation or transcription
\* is never handed to the response generator and leaves every history as it
\* is, and where the call has a session the turn returns the re-prompt
\* document
C11_EmptyUtteranceReprompt ==
  \A p \in Procs :
    (proc[p].op = "turn" /\ proc[p].arg = "empty") =>
      /\ proc[p].pc # "gen"
      /\ ~proc[p].gotReply
      /\ \A r \in Refs : ~InHistory(heap[r].conversationHistory, p)
      /\ (proc[p].pc = "done" /\ (proc[p].via = "direct" \/ proc[p].atStart = "live"))
            => proc[p].doc = "reprompt"

\* C12: when the status route has handled a terminal status (completed,
\* failed, busy, no-answer) for a call id that had a session in the registry
\* as the webhook arrived, the registry holds no session for that call id
C12_TerminalStatusRemoves ==
  [][\A p \in Procs :
       (/\ proc[p].pc # "done" /\ proc'[p].pc = "done"
        /\ proc'[p].via = "statusRoute"
        /\ proc'[p].arg \in TerminalStatuses
        /\ proc'[p].atStart = "live")
       => ~MapHas(activeCalls', proc'[p].sid)]_vars

\* C13: the status route answers every status webhook with status 200,
\* however the finalization it called came out
C13_StatusAlways200 ==
  \A p \in Procs :
    (proc[p].via = "statusRoute" /\ proc[p].pc = "done") => proc[p].http = 200

\* C14: a webhook (answer, turn or status) for a call id that had neither a
\* session nor a Call row as it arrived changes neither the registry nor the
\* durable rows, and is answered with a success status
C14_UnknownCallNoOp ==
  [][\A p \in Procs :
       (/\ proc'[p] # proc[p]
        /\ proc'[p].via # "direct"
        /\ proc'[p].atStart = "unknown")
       => /\ UNCHANGED <<activeCalls, calls, messages, contacts>>
          /\ proc'[p].http \in {0, 200}
          /\ proc'[p].pc = "done" => proc'[p].http = 200]_vars

\* C15: when the answer webhook finds a Call row for its call id and no
\* session in the registry, the registry holds a session for that call id once
\* the webhook is handled, whatever the status of the row
C15_AnswerReconstructs ==
  [][\A p \in Procs :
       (/\ proc[p].pc = "aGetCall" /\ proc'[p].pc = "done"
        /\ calls[proc[p].sid].exists
        /\ ~MapHas(activeCalls, proc[p].sid))
       => MapHas(activeCalls', proc[p].sid)]_vars

\* the pair of turn u is in history h: the utterance and, right after it, the
\* reply to it
PairIn(h, u) ==
  \E i \in 1..(Len(h) - 1) :
    /\ h[i].role = "user" /\ h[i].content = u
    /\ h[i + 1].role = "assistant" /\ h[i + 1].content = ReplyFor(u)

\* the renderer a document of handleUserInput comes from: the hang-up document
\* from generateHangupTwiML, the continue document and the document of the
\* catch from generateTwiML(message)
Renderer(doc) ==
  CASE doc = "hangup" -> "generateHangupTwiML"
    [] doc \in {"continue", "apology"} -> "generateTwiML"
    [] OTHER -> "route"

\* the document ends the call: the hang-up document of handleUserInput, and
\* the 'hangup' documents the routes render themselves
EndsInHangup(doc) == Renderer(doc) = "generateHangupTwiML"

\* a turn that failed inside handleUserInput: no session for the call id, or
\* a storage call that rejected
TurnFailed(p) ==
  /\ proc[p].op = "turn" /\ proc[p].pc = "done"
  /\ proc[p].failed \/ (proc[p].arg = "normal" /\ ~proc[p].gotReply)

\* C16: a placement attempt that failed (campaign not found, or the carrier
\* rejected the placement) ended with the error thrown to the caller of
\* initiateCall, and no session was ever created for that attempt
C16_FailedPlacementNoSession ==
  \A c \in Sids :
    initResult[c] = "error" =>
      /\ carrier[c] = "failed"
      /\ ~Live(c)
      /\ heap[c] = NoObj

\* a placement failed while a session of an earlier call is in the registry
C16_Witness ==
  \E c, d \in Sids :
    /\ initResult[c] = "error" /\ carrier[c] = "failed"
    /\ d # c /\ Live(d)

\* C17: a turn whose generator call failed, with a quota error or any other
\* error, has a reply with a non-empty message, its (user, assistant) pair
\* was appended to the history, and what it returns is a voice document
C17_GeneratorFailureNotFatal ==
  \A p \in Procs :
    (proc[p].op = "turn" /\ proc[p].gen \in GeneratorFailures) =>
      /\ proc[p].gotReply
      /\ proc[p].fallback # ""
      /\ PairIn(History(proc[p].sid), p)
      /\ proc[p].pc = "done" => proc[p].doc \in {"continue", "hangup", "apology"}

\* a turn whose generator call failed with a quota error has returned the
\* continue document, and one whose call failed otherwise the hang-up document
C17_Witness ==
  \E p, q \in Procs :
    /\ proc[p].pc = "done" /\ proc[p].gen = "quota" /\ proc[p].doc = "continue"
    /\ proc[q].pc = "done" /\ proc[q].gen = "error" /\ proc[q].doc = "hangup"

\* C18: whenever the generator call of a turn failed, the end-of-call decision
\* of the reply is the one the keyword fallback gives for the utterance
C18_KeywordDecisionOnFailure ==
  \A p \in Procs :
    (proc[p].op = "turn" /\ proc[p].gen \in GeneratorFailures) =>
      proc[p].reply.shouldEndCall = FallbackReply("quota", proc[p].utt).shouldEndCall

\* C19: a turn in which a storage call rejected still returns the continue or
\* the hang-up document, as the termination test of its reply decides, and
\* its pair is in the history
C19_StorageFailureProceeds ==
  \A p \in Procs :
    (proc[p].op = "turn" /\ proc[p].pc = "done" /\ proc[p].failed) =>
      /\ proc[p].doc = (IF ShouldFinalize(proc[p].reply) THEN "hangup" ELSE "continue")
      /\ PairIn(History(proc[p].sid), p)

\* C20: a turn that failed inside handleUserInput returns a document that is
\* not empty and ends in hang-up
C20_FailureHangsUp ==
  \A p \in Procs :
    TurnFailed(p) => proc[p].doc # "" /\ EndsInHangup(proc[p].doc)

C22_WhatsAppOnce ==
  \A c \in Sids : whatsappCount[c] <= 1

\* C23: endCall creates a contact for a call only when the store holds no
\* contact for that call's number yet, so that however many finalizations of
\* one call run and interleave, at most one Contact is created for it
C23_NoDoubleCreate ==
  [][\A p \in Procs :
       (proc[p].pc = "eCreateContact" /\ proc'[p].pc = "eSetContactId")
       => ~\E i \in 1..Len(contacts) :
             contacts[i].phone = calls[proc[p].sid].phoneNumber]_vars

\* C24: the store never holds two Contacts with the same phone, whatever
\* calls were initiated and finalized
C24_ContactsUniqueByPhone ==
  \A i, j \in 1..Len(contacts) :
    i # j => contacts[i].phone # contacts[j].phone

\* C25: the utterance the turn handler reconciles from the final result, the
\* unstable result and the digits is the first of the three that is not
\* empty, and is empty only when all three are
C25_ReconcileFallsBack ==
  applied.fn = "process-speech" =>
    LET sr == Trim(applied.args[1])
        ur == Trim(applied.args[2])
        dg == Trim(applied.args[3])
        utterance == applied.result[1]
    IN /\ sr # "" => utterance = sr
       /\ (sr = "" /\ ur # "") => utterance = ur
       /\ (sr = "" /\ ur = "" /\ dg # "") => utterance = dg
       /\ utterance = "" => (sr = "" /\ ur = "" /\ dg = "")

\* C26: when handleCallStatusUpdate has handled `completed` for a call that
\* has a Call row, the row has status completed and a duration, and the
\* registry holds no session for the call, whether or not one was live when
\* the webhook arrived
C26_CompletedStatusFinalizes ==
  [][\A p \in Procs :
       (/\ proc[p].op = "status" /\ proc[p].arg = "completed"
        /\ proc[p].pc = "sUpd" /\ proc'[p].pc = "done")
       => /\ calls'[proc[p].sid].status = "completed"
          /\ calls'[proc[p].sid].duration # -1
          /\ ~MapHas(activeCalls', proc[p].sid)]_vars

\* the keys of the extracted data
EDKeys == {"whatsapp_number", "email", "contact_complete", "customer_interest", "name"}

\* C27: the collected data that endCall reads for a call holds every key that
\* a finished turn of the call extracted (with that turn's value or the value
\* of a later turn)
C27_CollectedAccumulates ==
  [][\A p, q \in Procs :
       (/\ proc[p].pc = "eGetCall" /\ proc'[p].pc = "eUpdCall"
        /\ TurnDone(q) /\ proc[q].sid = proc[p].sid
        /\ proc[q].doc \in {"continue", "hangup"}
        /\ calls[proc[p].sid].exists)
       => \A k \in EDKeys :
            proc[q].reply.extractedData[k] # "" => proc'[p].ecallData[k] # ""]_vars

\* the registry entry of call id b: its Map entries and the session objects
\* they refer to
RegistryEntry(m, h, b) == {[key |-> e.key, ref |-> e.ref, obj |-> h[e.ref]] : e \in {x \in m : x.key = b}}

\* C28: a step that changes the registry entry of a call id is a step of an
\* operation on that call id: its placement or tracking, or a handler invoked
\* for it; operations on other call ids leave the entry as it is
C28_CallsIndependent ==
  [][\A b \in Sids :
       RegistryEntry(activeCalls', heap', b) # RegistryEntry(activeCalls, heap, b)
       => \/ carrier'[b] # carrier[b]
          \/ \E p \in Procs : proc'[p] # proc[p] /\ proc[p].sid = b]_vars

\* one call has been finalized and removed while another keeps its session
\* with the history of a turn
C28_Witness ==
  \E a, b \in Sids :
    /\ a # b
    /\ Removed(a) /\ calls[a].status = "completed"
    /\ Live(b) /\ Len(History(b)) = 2

\* C29: the CallMessage rows of a call are in the order of its history: every
\* assistant row directly follows the user row of its own turn, and two turns
\* whose rows are both written are in the order in which the history has them
C29_MessagesInHistoryOrder ==
  \A c \in Sids :
    LET m == messages[c]
        h == History(c)
    IN /\ \A j \in 1..Len(m) :
            m[j].role = "assistant" =>
              /\ j > 1
              /\ m[j - 1].role = "user"
              /\ ReplyFor(m[j - 1].content) = m[j].content
       /\ \A i, j \in 1..Len(m) :
            (/\ i < j /\ m[i].role = "user" /\ m[j].role = "user"
             /\ InHistory(h, m[i].content) /\ InHistory(h, m[j].content))
            => Pos(h, m[i].content) < Pos(h, m[j].content)

\* C30: generateTwiML returns a document for every kind and every choice of
\* options; a hangup document ends with the hang-up instruction, and a gather
\* document holds a record instruction whose action and recording callback
\* are the supplied ones, or the default ones when none is supplied
C30_RenderRespectsKind ==
  applied.fn = "generateTwiML" =>
    LET kind == applied.args[2]
        o    == applied.args[3]
        doc  == applied.result
    IN /\ doc \in Seq({doc[i] : i \in 1..Len(doc)})
       /\ kind = "say" => Len(doc) > 0
       /\ kind = "hangup" => Len(doc) > 0 /\ doc[Len(doc)] = Hangup
       /\ kind # "hangup" => \A i \in 1..Len(doc) : doc[i] # Hangup
       /\ kind = "gather" =>
            \E i \in 1..Len(doc) :
              /\ doc[i].verb = "Record"
              /\ doc[i].a # "" /\ doc[i].b # ""
              /\ o.action # "" => doc[i].a = o.action
              /\ o.action = "" => doc[i].a = "/api/calls/process-speech"
              /\ o.recordingCallback # "" => doc[i].b = o.recordingCallback

\* a gather document was rendered from no options at all: it starts with the
\* record instruction, which carries the default action
C30_Witness ==
  /\ applied.fn = "generateTwiML"
  /\ applied.args[2] = "gather"
  /\ applied.args[3].text = "" /\ applied.args[3].action = ""
  /\ applied.args[3].recordingCallback = "" /\ ~applied.args[3].addTypingSound
  /\ applied.result[1] = Verb("Record", "/api/calls/process-speech",
                              "/api/calls/recording-complete")

\* C31: a terminal status is stable: once endCall has marked a Call completed
\* (with its summary and score) and the session is gone, a status webhook
\* that finds no session for the call does not change the status to failed
C31_TerminalStatusStable ==
  [][\A p \in Procs :
       (/\ proc[p].op = "status" /\ proc[p].pc = "sUpd" /\ proc[p].eref = NoRef
        /\ calls[proc[p].sid].status = "completed" /\ calls[proc[p].sid].summarized)
       => calls'[proc[p].sid].status # "failed"]_vars

\* C32: in the keyword fallback of a quota error every utterance with a run
\* of ten digits gets that run as extractedData.whatsapp_number, whatever
\* other keywords the utterance holds
C32_DigitsGiveWhatsapp ==
  (/\ applied.fn = "generateResponse.catch" /\ applied.args[1] = "quota"
   /\ "digits" \in applied.args[2])
  => applied.result.extractedData.whatsapp_number = "w1"

\* C37: in the keyword fallback of a quota error every utterance that holds
\* "not interested" ends the call with customer_interest = not_interested,
\* whatever other keywords the utterance holds
C37_NotInterestedEnds ==
  (/\ applied.fn = "generateResponse.catch" /\ applied.args[1] = "quota"
   /\ "not interested" \in applied.args[2])
  => /\ applied.result.shouldEndCall
     /\ applied.result.extractedData.customer_interest = "not_interested"

\* C33: no turn data is persisted for a call that has reached a terminal
\* status: once the Call is completed or failed no step creates a CallMessage
\* row for it, updates its collectedData or sends a WhatsApp notification for
\* it
C33_NoTurnDataAfterTerminal ==
  [][\A c \in Sids :
       (calls[c].exists /\ calls[c].status \in {"completed", "failed"})
       => /\ messages'[c] = messages[c]
          /\ calls'[c].collectedData = calls[c].collectedData
          /\ calls'[c].hasCollected = calls[c].hasCollected
          /\ whatsappCount'[c] = whatsappCount[c]]_vars

\* the places of a handler that is inside endCall or about to call it
EndCallPcs == EndCallStoragePcs \cup {"pred", "sGetCall", "eDelete"}

\* C34: whenever endCall returns for a call id, the registry holds no session
\* for that id and the carrier has been told to end the call, also when the
\* Call row is missing and when a storage step of the finalization failed
C34_EndCallAlwaysCleansUp ==
  [][\A p \in Procs :
       (/\ proc[p].pc \in EndCallPcs
        /\ proc'[p].endCalled
        /\ proc'[p].pc \in {"sUpd", "done"})
       => /\ ~MapHas(activeCalls', proc[p].sid)
          /\ carrierEnded'[proc[p].sid]]_vars

\* C35: the summary written at finalization covers the whole conversation:
\* when endCall marks the Call completed, the history its summary was made
\* from holds the pair of every turn of the call whose reply was generated
\* and pushed onto the session's history by then
C35_SummaryCoversConversation ==
  [][\A p, q \in Procs :
       (/\ proc[p].pc = "eUpdCall" /\ proc'[p].pc # "eUpdCall"
        /\ calls'[proc[p].sid].summarized
        /\ proc[q].op = "turn" /\ proc[q].sid = proc[p].sid /\ proc[q].gotReply
        /\ PairIn(heap[proc[p].eref].conversationHistory, q))
       => PairIn(calls'[proc[p].sid].conversationSummary, q)]_vars

\* C36: the successScore that endCall writes is an integer from 1 to 100 for
\* every outcome of the score request: a numeric reply, a reply that is not a
\* number or is empty, a quota error, any other error, a missing campaign
C36_ScoreInRange ==
  applied.fn = "calculateSuccessScore" =>
    /\ ~applied.result.nan
    /\ applied.result.val \in 1..100

\* C38: on every exit path of processAudioRealtime (the continue reply, the
\* should_end reply, the error fallback) the deferred deletion of the
\* temporary file it wrote has been scheduled
C38_TempFileCleanupScheduled ==
  (applied.fn = "processAudioRealtime" /\ applied.result.written)
  => applied.result.cleanupScheduled
====
